---- MODULE Spec2Model ----
(***************************************************************************)
(* AERN (src/app.py): the dispatch and response-normalization layer of a   *)
(* Streamlit front end to the JamAI table service.                         *)
(*                                                                         *)
(*   Spec      one run of the script: tab 1 (single modality) followed by  *)
(*             tab 2 (multi-modality fusion)                               *)
(*   SpecSend  the inside of one call of send_table_row                    *)
(*   SpecPure  the pure helpers _find_row_dict, _normalize_row_dict and    *)
(*             _extract_field_safe applied to bounded inputs               *)
(***************************************************************************)
EXTENDS Integers, Sequences, FiniteSets, TLC

VARIABLES
    \* ---- script run (Spec) ----
    pc,               \* position in the script
    clicked,          \* the button whose click triggered this run
    input_type,       \* st.radio of tab 1
    text_input,       \* st.text_area of tab 1
    audio_file,       \* st.file_uploader of tab 1 (audio): TRUE when a file is held
    photo_file,       \* st.file_uploader of tab 1 (photo)
    multi_text,       \* widgets of tab 2
    multi_audio,
    multi_photo,
    user_data,        \* InputRecord of tab 1
    table_id_to_use,
    ready_to_send,
    multi_data,       \* InputRecord of tab 2
    temp_path,        \* the local holding the staged path (NoPath for None)
    tmpFiles,         \* temporary files created in this run
    uploads,          \* calls of jamai.file.upload_file made in this run
    sends,            \* calls of send_table_row made in this run
    messages,         \* st.error / st.warning reports of this run
    response,         \* what send_table_row returned
    shown,            \* the description and the summary displayed
    \* ---- send_table_row (SpecSend) ----
    sPc,
    table_obj,        \* jamai.table: whether it is there, and its callable attributes
    candIdx,
    attIdx,
    invocations,      \* calls made on jamai.table, with their outcome
    last_exceptions,
    \* ---- pure helpers (SpecPure) ----
    fn,
    arg,
    reqKey,
    result,
    steps

uiVars == <<pc, clicked, input_type, text_input, audio_file, photo_file,
            multi_text, multi_audio, multi_photo, user_data, table_id_to_use,
            ready_to_send, multi_data, temp_path, tmpFiles, uploads, sends,
            messages, response, shown>>
sendVars == <<sPc, table_obj, candIdx, attIdx, invocations, last_exceptions>>
pureVars == <<fn, arg, reqKey, result, steps>>
vars == <<uiVars, sendVars, pureVars>>

(***************************************************************************)
(* Python values as the helpers see them: None, str, dict (insertion       *)
(* ordered), list, and an object with instance attributes.                 *)
(***************************************************************************)
None == [t |-> "none", s |-> "", kv |-> <<>>, items |-> <<>>]
Str(x) == [t |-> "str", s |-> x, kv |-> <<>>, items |-> <<>>]
Dict(pairs) == [t |-> "dict", s |-> "", kv |-> pairs, items |-> <<>>]
List(xs) == [t |-> "list", s |-> "", kv |-> <<>>, items |-> xs]
Obj(attrs) == [t |-> "obj", s |-> "", kv |-> attrs, items |-> <<>>]

IsDict(v) == v.t = "dict"
IsList(v) == v.t = "list"
IsStr(v) == v.t = "str"

\* key in d
HasKey(d, k) == \E i \in 1..Len(d.kv) : d.kv[i][1] = k
\* d[key]
Get(d, k) == d.kv[CHOOSE i \in 1..Len(d.kv) : d.kv[i][1] = k][2]
\* hasattr(o, name), for an object carrying instance attributes
HasAttr(o, k) == o.t = "obj" /\ HasKey(o, k)

(***************************************************************************)
(* Response Normalizer and Field Extractor                                 *)
(***************************************************************************)
\* the keys under which a row may wrap its fields, in the order tried
WrapKeys == <<"values", "fields", "data">>

\* key in d and isinstance(d[key], dict)
IsWrapped(d, k) == HasKey(d, k) /\ IsDict(Get(d, k))

\* unwrap every level instead of exactly one
RECURSIVE NormalizeDeep(_)
NormalizeDeep(d) ==
    IF ~IsDict(d) THEN Dict(<<>>)
    ELSE IF \E i \in 1..Len(WrapKeys) : IsWrapped(d, WrapKeys[i])
         THEN NormalizeDeep(Get(d, WrapKeys[CHOOSE i \in 1..Len(WrapKeys) :
                      /\ IsWrapped(d, WrapKeys[i])
                      /\ \A j \in 1..(i-1) : ~IsWrapped(d, WrapKeys[j])]))
         ELSE d

\* no unwrapping at all
NormalizeNone(d) == IF ~IsDict(d) THEN Dict(<<>>) ELSE d

_normalize_row_dict(d) ==
    IF ~IsDict(d) THEN Dict(<<>>)
    ELSE IF \E i \in 1..Len(WrapKeys) : IsWrapped(d, WrapKeys[i])
         THEN Get(d, WrapKeys[CHOOSE i \in 1..Len(WrapKeys) :
                      /\ IsWrapped(d, WrapKeys[i])
                      /\ \A j \in 1..(i-1) : ~IsWrapped(d, WrapKeys[j])])
         ELSE d

RECURSIVE _find_row_dict(_)
_find_row_dict(r) ==
    IF r = None THEN Dict(<<>>)
    ELSE IF IsList(r) /\ Len(r.items) > 0 /\ IsDict(r.items[1])
         THEN _normalize_row_dict(r.items[1])
    ELSE IF IsDict(r) THEN
         IF HasKey(r, "row") /\ IsDict(Get(r, "row"))
              THEN _normalize_row_dict(Get(r, "row"))
         ELSE IF /\ HasKey(r, "rows")
                 /\ IsList(Get(r, "rows"))
                 /\ Len(Get(r, "rows").items) > 0
              THEN _normalize_row_dict(Get(r, "rows").items[1])
         ELSE IF HasKey(r, "values") /\ IsDict(Get(r, "values"))
              THEN _normalize_row_dict(Get(r, "values"))
         ELSE IF HasKey(r, "data") /\ IsDict(Get(r, "data"))
              THEN _normalize_row_dict(Get(r, "data"))
         ELSE _normalize_row_dict(r)
    ELSE IF HasAttr(r, "row") /\ IsDict(Get(r, "row"))
         THEN _normalize_row_dict(Get(r, "row"))
    ELSE IF /\ HasAttr(r, "rows")
            /\ IsList(Get(r, "rows"))
            /\ Len(Get(r, "rows").items) > 0
         THEN _normalize_row_dict(Get(r, "rows").items[1])
    ELSE IF r.t = "obj" THEN _find_row_dict(Dict(r.kv))
    ELSE Dict(<<>>)

\* d.get(key, default)
GetOr(d, k, default) == IF HasKey(d, k) THEN Get(d, k) ELSE default

\* the keys whose string value short-circuits a "description"/"summary" lookup
AltKeys == <<"text", "description", "summary", "content">>

\* the nested search of _extract_field_safe; None when nothing is found
RECURSIVE search(_, _)
RECURSIVE searchEach(_, _, _)
searchEach(xs, i, key) ==
    IF i > Len(xs) THEN None
    ELSE LET res == search(xs[i], key)
         IN  IF res # None THEN res ELSE searchEach(xs, i + 1, key)
search(obj, key) ==
    IF IsDict(obj) THEN
         IF HasKey(obj, key) THEN Get(obj, key)
         ELSE searchEach([i \in 1..Len(obj.kv) |-> obj.kv[i][2]], 1, key)
    ELSE IF IsList(obj) THEN searchEach(obj.items, 1, key)
    ELSE None

_extract_field_safe(row_dict, key, default) ==
    IF ~IsDict(row_dict) THEN default
    ELSE IF HasKey(row_dict, key) THEN Get(row_dict, key)
    ELSE IF \E i \in 1..Len(AltKeys) :
                /\ HasKey(row_dict, AltKeys[i])
                /\ IsStr(Get(row_dict, AltKeys[i]))
                /\ key \in {"description", "summary"}
         THEN GetOr(row_dict, key, default)
    ELSE LET found == search(row_dict, key)
         IN  IF found # None THEN found ELSE default

(***************************************************************************)
(* Bounded inputs of the pure helpers                                      *)
(***************************************************************************)
\* most entries of a field mapping drawn as input
MaxPairs == 2
\* most entries of the top level of a row handed to the Field Extractor
MaxRowPairs == 2
\* how often the unwrap step is repeated on its own result
MaxSteps == 2

\* the dicts of at most n entries with keys from keys and values from vals
DictsOver(keys, vals, n) ==
    { Dict(s) : s \in UNION { { q \in [1..m -> keys \X vals] :
                                  \A i, j \in 1..m : i # j => q[i][1] # q[j][1] }
                              : m \in 0..n } }

InnerMaps ==
    { Dict(<<>>),
      Dict(<< <<"summary", Str("X")>> >>),
      Dict(<< <<"values", Dict(<< <<"summary", Str("Y")>> >>)>> >>) }
FieldMaps == DictsOver({"values", "fields", "data", "summary"},
                       {Str("X")} \cup InnerMaps, MaxPairs)

\* the envelope shapes of the ResponseEnvelope around a field mapping F
Envelopes(F) ==
    { Dict(<< <<"row", F>> >>),
      Dict(<< <<"rows", List(<<F>>)>> >>),
      Dict(<< <<"values", F>> >>),
      Dict(<< <<"data", F>> >>),
      F,
      List(<<F>>),
      Obj(<< <<"row", F>> >>),
      Obj(<< <<"rows", List(<<F>>)>> >>),
      Obj(<< <<"status", Str("X")>>, <<"values", F>> >>) }
OddResponses ==
    { None, Str("X"), List(<<>>), List(<<Str("X")>>), Obj(<<>>),
      Dict(<< <<"row", Str("X")>> >>),
      Dict(<< <<"rows", List(<<>>)>> >>),
      Dict(<< <<"rows", List(<<Str("X")>>)>> >>),
      Obj(<< <<"row", None>>, <<"rows", List(<<>>)>> >>) }
Responses == OddResponses \cup UNION { Envelopes(F) : F \in FieldMaps }

RowLeaves == {Str("X"), Str("Y")}
RowNested ==
    LET inner == DictsOver({"summary", "id"}, RowLeaves, 1)
    IN  inner \cup { List(<<d>>) : d \in inner }
          \cup { Dict(<< <<"inner", d>> >>) : d \in {Dict(<< <<"summary", Str("Y")>> >>)} }
ExtractRows == DictsOver({"text", "summary", "outer", "items"},
                         {Str("X")} \cup RowNested, MaxRowPairs)
ReqKeys == {"description", "summary", "id"}
Default == Str("N/A")

PureInputs == Responses \cup ExtractRows

(***************************************************************************)
(* Configuration and the Remote Uploader                                   *)
(***************************************************************************)
TABLE_ID_TEXT == "text_received"
TABLE_ID_AUDIO == "audio_receive"
TABLE_ID_PHOTO == "picture_receipt"
TABLE_ID_MULTI == "combined"
NoTable == "<None>"

\* the record key of the modality picked with the radio of tab 1
ModalityOf(choice) ==
    CASE choice = "Text" -> "text"
      [] choice = "Audio" -> "audio"
      [] choice = "Photo" -> "photo"

\* the audio and photo tables exchanged
TableForSwapped(modality) ==
    CASE modality = "text" -> TABLE_ID_TEXT
      [] modality = "audio" -> TABLE_ID_PHOTO
      [] modality = "photo" -> TABLE_ID_AUDIO

\* the table tab 1 assigns to table_id_to_use for a modality
TableFor(modality) ==
    CASE modality = "text" -> TABLE_ID_TEXT
      [] modality = "audio" -> TABLE_ID_AUDIO
      [] modality = "photo" -> TABLE_ID_PHOTO

\* Python truthiness of a value
Truthy(v) ==
    CASE v.t = "none" -> FALSE
      [] v.t = "str" -> v.s # ""
      [] v.t = "dict" -> Len(v.kv) > 0
      [] v.t = "list" -> Len(v.items) > 0
      [] OTHER -> TRUE

\* a or b
PyOr(a, b) == IF Truthy(a) THEN a ELSE b

_get_uri_from_upload(upload_resp) ==
    IF upload_resp = None THEN None
    ELSE IF IsDict(upload_resp)
         THEN PyOr(GetOr(upload_resp, "uri", None), GetOr(upload_resp, "url", None))
    ELSE IF HasAttr(upload_resp, "uri") THEN Get(upload_resp, "uri")
    ELSE IF HasAttr(upload_resp, "url") THEN Get(upload_resp, "url")
    ELSE IF HasAttr(upload_resp, "row") /\ IsDict(Get(upload_resp, "row"))
         THEN PyOr(GetOr(Get(upload_resp, "row"), "uri", None),
                   GetOr(Get(upload_resp, "row"), "url", None))
    ELSE None

\* "if uri is not None": an empty reference passes
UriNotNone(uri) == uri # None

\* "if uri_audio:", "if not uploaded_uri:": the resolved reference is usable
UriUsable(uri) == Truthy(uri)

\* the shapes of UploadResult the upload call returns
UploadResps ==
    { None,
      Dict(<< <<"uri", Str("uri-1")>> >>),
      Dict(<< <<"uri", Str("")>>, <<"url", Str("url-2")>> >>),
      Obj(<< <<"uri", Str("")>>, <<"url", Str("url-2")>> >>),
      Obj(<< <<"url", Str("url-2")>> >>),
      Obj(<< <<"row", Dict(<< <<"uri", Str("uri-1")>> >>)>> >>) }
\* jamai.file.upload_file: it raises, or returns an UploadResult
UploadOutcomes ==
    { [raised |-> TRUE, resp |-> None] }
      \cup { [raised |-> FALSE, resp |-> r] : r \in UploadResps }

(***************************************************************************)
(* Attachment Stager                                                       *)
(***************************************************************************)
NoPath == [tab |-> "", modality |-> ""]
PathOf(tab, modality) == [tab |-> tab, modality |-> modality]

\* what can happen inside save_uploaded_file: the file is written; creating it
\* raises; it is created and writing it raises
StageOutcomes == {"ok", "create_failed", "write_failed"}

\* the value save_uploaded_file returns
save_uploaded_file(path, outcome) == IF outcome = "ok" THEN path ELSE NoPath

\* the temporary files after save_uploaded_file
FilesAfterSave(files, path, outcome) ==
    IF outcome = "create_failed" THEN files
    ELSE files \cup { [path |-> path, exists |-> TRUE, cleaned |-> FALSE] }

\* the temporary files after _cleanup_temp(path); removed: os.remove succeeds
_cleanup_temp(files, path, removed) ==
    IF path = NoPath THEN files
    ELSE { IF f.path = path /\ f.exists
              THEN [f EXCEPT !.exists = ~removed, !.cleaned = TRUE]
              ELSE f : f \in files }

\* a staging failure is reported by save_uploaded_file
StageMessages(tab, outcome) ==
    IF outcome = "ok" THEN {} ELSE { <<tab, "error", "Error saving uploaded file">> }

(***************************************************************************)
(* One run of the script                                                   *)
(***************************************************************************)
EmptyRecord == <<>>
Entry(k, v) == [x \in {k} |-> v]
WithEntry(rec, k, v) == [x \in DOMAIN rec \cup {k} |-> IF x = k THEN v ELSE rec[x]]

TextInputs == {"", "fire"}
\* what the row-insertion call hands back to the script
SendResponses ==
    { Dict(<< <<"row", Dict(<< <<"description", Str("X")>>, <<"summary", Str("Y")>> >>)>> >>),
      List(<<Dict(<< <<"values", Dict(<< <<"summary", Str("Y")>> >>)>> >>)>>),
      None }
SendOutcomes ==
    { [raised |-> TRUE, resp |-> None] }
      \cup { [raised |-> FALSE, resp |-> r] : r \in SendResponses }

NothingShown == <<None, None>>
\* lines 308-310 and 380-382: the two fields displayed for a response
Display(r) ==
    LET row == _find_row_dict(r)
    IN  << _extract_field_safe(row, "description", Str("No description generated")),
           _extract_field_safe(row, "summary", Str("No summary generated")) >>

\* st.button("Analyze Single Input", disabled=not ready_to_send) returns True
\* whatever ready_to_send is
SingleButtonNeverDisabled(clk, ready) == clk = "single"

\* st.button("Analyze Single Input", disabled=not ready_to_send): a disabled
\* button is taken never to report a click
SingleButton(clk, ready) == clk = "single" /\ ready

\* the guard of line 336 with its negation lost
NoInputInverted(text, audio, photo) == text # "" \/ audio \/ photo

\* not (multi_text or multi_audio or multi_photo)
NoInput(text, audio, photo) == ~(text # "" \/ audio \/ photo)

UploadFailed(modality) ==
    IF modality = "audio" THEN "Audio upload failed" ELSE "Photo upload failed"
NoUriWarning(modality) ==
    IF modality = "audio" THEN "Audio uploaded but no uri returned."
    ELSE "Photo uploaded but no uri returned."

UploadEntry(tab, modality, path, o) ==
    [tab |-> tab, modality |-> modality, path |-> path,
     raised |-> o.raised, uri |-> _get_uri_from_upload(o.resp)]
SendEntry(tab, table_id, data) == [tab |-> tab, table_id |-> table_id, data |-> data]

\* A run of the script starts from whatever the widgets hold and whichever
\* button, if any, was clicked; lines 248-250 set the locals of tab 1.
UIInit ==
    /\ pc = "tab1"
    /\ clicked \in {"none", "single", "multi"}
    /\ input_type \in {"Text", "Audio", "Photo"}
    /\ text_input \in TextInputs
    /\ audio_file \in BOOLEAN
    /\ photo_file \in BOOLEAN
    /\ multi_text \in TextInputs
    /\ multi_audio \in BOOLEAN
    /\ multi_photo \in BOOLEAN
    /\ user_data = EmptyRecord
    /\ table_id_to_use = NoTable
    /\ ready_to_send = FALSE
    /\ multi_data = EmptyRecord
    /\ temp_path = NoPath
    /\ tmpFiles = {}
    /\ uploads = <<>>
    /\ sends = <<>>
    /\ messages = {}
    /\ response = None
    /\ shown = NothingShown

\* lines 252-257
Tab1Text ==
    /\ pc = "tab1"
    /\ input_type = "Text"
    /\ IF text_input # ""
          THEN /\ user_data' = Entry("text", Str(text_input))
               /\ table_id_to_use' = TableFor("text")
               /\ ready_to_send' = TRUE
          ELSE UNCHANGED <<user_data, table_id_to_use, ready_to_send>>
    /\ pc' = "tab1_button"
    /\ UNCHANGED <<clicked, input_type, text_input, audio_file, photo_file,
                   multi_text, multi_audio, multi_photo, multi_data, temp_path,
                   tmpFiles, uploads, sends, messages, response, shown>>
    /\ UNCHANGED <<sendVars, pureVars>>

\* lines 259-263 and 279-284: the file of the chosen modality is staged
Tab1Stage ==
    /\ pc = "tab1"
    /\ input_type \in {"Audio", "Photo"}
    /\ LET modality == ModalityOf(input_type)
           held == IF input_type = "Audio" THEN audio_file ELSE photo_file
       IN  IF ~held
              THEN /\ pc' = "tab1_button"
                   /\ UNCHANGED <<temp_path, tmpFiles, messages>>
              ELSE \E o \in StageOutcomes :
                   /\ temp_path' = save_uploaded_file(PathOf("single", modality), o)
                   /\ tmpFiles' = FilesAfterSave(tmpFiles, PathOf("single", modality), o)
                   /\ messages' = messages \cup StageMessages("single", o)
                   /\ pc' = IF temp_path' # NoPath THEN "tab1_upload" ELSE "tab1_button"
    /\ UNCHANGED <<clicked, input_type, text_input, audio_file, photo_file,
                   multi_text, multi_audio, multi_photo, user_data,
                   table_id_to_use, ready_to_send, multi_data, uploads, sends,
                   response, shown>>
    /\ UNCHANGED <<sendVars, pureVars>>

\* lines 264-277 and 285-298: upload, resolve the reference, clean up
Tab1Upload ==
    /\ pc = "tab1_upload"
    /\ \E o \in UploadOutcomes, removed \in BOOLEAN :
       LET modality == ModalityOf(input_type)
           uploaded_uri == _get_uri_from_upload(o.resp)
       IN  /\ uploads' = Append(uploads, UploadEntry("single", modality, temp_path, o))
           /\ IF o.raised
                 THEN /\ messages' = messages \cup
                            { <<"single", "error", UploadFailed(modality)>> }
                      /\ UNCHANGED <<user_data, table_id_to_use, ready_to_send>>
                 ELSE IF ~UriUsable(uploaded_uri)
                 THEN /\ messages' = messages \cup
                            { <<"single", "error", "Upload succeeded but no URI was returned.">> }
                      /\ UNCHANGED <<user_data, table_id_to_use, ready_to_send>>
                 ELSE /\ user_data' = Entry(modality, uploaded_uri)
                      /\ table_id_to_use' = TableFor(modality)
                      /\ ready_to_send' = TRUE
                      /\ UNCHANGED messages
           /\ tmpFiles' = _cleanup_temp(tmpFiles, temp_path, removed)
    /\ pc' = "tab1_button"
    /\ UNCHANGED <<clicked, input_type, text_input, audio_file, photo_file,
                   multi_text, multi_audio, multi_photo, multi_data, temp_path,
                   sends, response, shown>>
    /\ UNCHANGED <<sendVars, pureVars>>

\* lines 300-303 and 317-319: the button of tab 1 and the row insertion
Tab1Button ==
    /\ pc = "tab1_button"
    /\ IF SingleButton(clicked, ready_to_send)
          THEN \E o \in SendOutcomes :
               /\ sends' = Append(sends, SendEntry("single", table_id_to_use, user_data))
               /\ IF o.raised
                     THEN /\ messages' = messages \cup
                                { <<"single", "error", "An error occurred">> }
                          /\ pc' = "tab2"
                          /\ UNCHANGED response
                     ELSE /\ response' = o.resp
                          /\ pc' = "tab1_show"
                          /\ UNCHANGED messages
          ELSE /\ pc' = "tab2"
               /\ UNCHANGED <<sends, messages, response>>
    /\ UNCHANGED <<clicked, input_type, text_input, audio_file, photo_file,
                   multi_text, multi_audio, multi_photo, user_data,
                   table_id_to_use, ready_to_send, multi_data, temp_path,
                   tmpFiles, uploads, shown>>
    /\ UNCHANGED <<sendVars, pureVars>>

\* lines 304-316
Tab1Show ==
    /\ pc = "tab1_show"
    /\ shown' = Display(response)
    /\ pc' = "tab2"
    /\ UNCHANGED <<clicked, input_type, text_input, audio_file, photo_file,
                   multi_text, multi_audio, multi_photo, user_data,
                   table_id_to_use, ready_to_send, multi_data, temp_path,
                   tmpFiles, uploads, sends, messages, response>>
    /\ UNCHANGED <<sendVars, pureVars>>

\* positions of tab 2, by modality
StagePc(modality) == IF modality = "audio" THEN "tab2_audio" ELSE "tab2_photo"
UploadPc(modality) == IF modality = "audio" THEN "tab2_audio_up" ELSE "tab2_photo_up"
AfterPc(modality) == IF modality = "audio" THEN "tab2_photo" ELSE "tab2_send"

\* lines 335-343: the button of tab 2, its guard, and the text entry
Tab2Button ==
    /\ pc = "tab2"
    /\ IF clicked # "multi"
          THEN /\ pc' = "done"
               /\ UNCHANGED <<multi_data, messages>>
          ELSE IF NoInput(multi_text, multi_audio, multi_photo)
          THEN /\ messages' = messages \cup
                     { <<"multi", "error", "Please provide at least one input.">> }
               /\ pc' = "done"
               /\ UNCHANGED multi_data
          ELSE /\ multi_data' = IF multi_text # ""
                                   THEN Entry("text", Str(multi_text))
                                   ELSE EmptyRecord
               /\ pc' = "tab2_audio"
               /\ UNCHANGED messages
    /\ UNCHANGED <<clicked, input_type, text_input, audio_file, photo_file,
                   multi_text, multi_audio, multi_photo, user_data,
                   table_id_to_use, ready_to_send, temp_path, tmpFiles, uploads,
                   sends, response, shown>>
    /\ UNCHANGED <<sendVars, pureVars>>

\* lines 345-347 (audio) and 360-362 (photo)
Tab2Stage(modality) ==
    /\ pc = StagePc(modality)
    /\ LET held == IF modality = "audio" THEN multi_audio ELSE multi_photo
       IN  IF ~held
              THEN /\ pc' = AfterPc(modality)
                   /\ UNCHANGED <<temp_path, tmpFiles, messages>>
              ELSE \E o \in StageOutcomes :
                   /\ temp_path' = save_uploaded_file(PathOf("multi", modality), o)
                   /\ tmpFiles' = FilesAfterSave(tmpFiles, PathOf("multi", modality), o)
                   /\ messages' = messages \cup StageMessages("multi", o)
                   /\ pc' = IF temp_path' # NoPath THEN UploadPc(modality)
                                                   ELSE AfterPc(modality)
    /\ UNCHANGED <<clicked, input_type, text_input, audio_file, photo_file,
                   multi_text, multi_audio, multi_photo, user_data,
                   table_id_to_use, ready_to_send, multi_data, uploads, sends,
                   response, shown>>
    /\ UNCHANGED <<sendVars, pureVars>>

\* lines 348-358 (audio) and 363-373 (photo)
Tab2Upload(modality) ==
    /\ pc = UploadPc(modality)
    /\ \E o \in UploadOutcomes, removed \in BOOLEAN :
       LET uri == _get_uri_from_upload(o.resp)
       IN  /\ uploads' = Append(uploads, UploadEntry("multi", modality, temp_path, o))
           /\ IF o.raised
                 THEN /\ messages' = messages \cup
                            { <<"multi", "error", UploadFailed(modality)>> }
                      /\ UNCHANGED multi_data
                 ELSE IF UriUsable(uri)
                 THEN /\ multi_data' = WithEntry(multi_data, modality, uri)
                      /\ UNCHANGED messages
                 ELSE /\ messages' = messages \cup
                            { <<"multi", "warning", NoUriWarning(modality)>> }
                      /\ UNCHANGED multi_data
           /\ tmpFiles' = _cleanup_temp(tmpFiles, temp_path, removed)
    /\ pc' = AfterPc(modality)
    /\ UNCHANGED <<clicked, input_type, text_input, audio_file, photo_file,
                   multi_text, multi_audio, multi_photo, user_data,
                   table_id_to_use, ready_to_send, temp_path, sends, response,
                   shown>>
    /\ UNCHANGED <<sendVars, pureVars>>

\* lines 375 and 389-390
Tab2Send ==
    /\ pc = "tab2_send"
    /\ \E o \in SendOutcomes :
       /\ sends' = Append(sends, SendEntry("multi", TABLE_ID_MULTI, multi_data))
       /\ IF o.raised
             THEN /\ messages' = messages \cup
                        { <<"multi", "error", "An error occurred during fusion">> }
                  /\ pc' = "done"
                  /\ UNCHANGED response
             ELSE /\ response' = o.resp
                  /\ pc' = "tab2_show"
                  /\ UNCHANGED messages
    /\ UNCHANGED <<clicked, input_type, text_input, audio_file, photo_file,
                   multi_text, multi_audio, multi_photo, user_data,
                   table_id_to_use, ready_to_send, multi_data, temp_path,
                   tmpFiles, uploads, shown>>
    /\ UNCHANGED <<sendVars, pureVars>>

\* lines 376-388
Tab2Show ==
    /\ pc = "tab2_show"
    /\ shown' = Display(response)
    /\ pc' = "done"
    /\ UNCHANGED <<clicked, input_type, text_input, audio_file, photo_file,
                   multi_text, multi_audio, multi_photo, user_data,
                   table_id_to_use, ready_to_send, multi_data, temp_path,
                   tmpFiles, uploads, sends, messages, response>>
    /\ UNCHANGED <<sendVars, pureVars>>

\* the variables of send_table_row's inside and of the pure helpers at rest
SendIdle ==
    /\ sPc = "idle"
    /\ table_obj = [present |-> FALSE, attrs |-> {}]
    /\ candIdx = 0
    /\ attIdx = 0
    /\ invocations = <<>>
    /\ last_exceptions = <<>>
PureIdle ==
    /\ fn = "idle"
    /\ arg = None
    /\ reqKey = ""
    /\ result = None
    /\ steps = 0

Init == UIInit /\ SendIdle /\ PureIdle

Next ==
    \/ Tab1Text
    \/ Tab1Stage
    \/ Tab1Upload
    \/ Tab1Button
    \/ Tab1Show
    \/ Tab2Button
    \/ Tab2Stage("audio")
    \/ Tab2Upload("audio")
    \/ Tab2Stage("photo")
    \/ Tab2Upload("photo")
    \/ Tab2Send
    \/ Tab2Show

Spec == Init /\ [][Next]_vars

(***************************************************************************)
(* Properties of a run                                                     *)
(***************************************************************************)
\* the InputRecord a tab builds
RecordOf(tab) == IF tab = "single" THEN user_data ELSE multi_data
Tabs == {"single", "multi"}
Binary == {"audio", "photo"}
SendsOf(tab) == { j \in 1..Len(sends) : sends[j].tab = tab }
UploadsOf(tab) == { i \in 1..Len(uploads) : uploads[i].tab = tab }

\* C1: in every state of a submission, single or combined, the InputRecord
\* holds an "audio" or "photo" entry only if the upload call for that modality
\* returned without raising and a non-empty reference was resolved from what
\* it returned; the entry's value is that reference.
C1_EntryOnlyAfterUpload ==
    \A tab \in Tabs : \A m \in Binary :
        m \in DOMAIN RecordOf(tab) =>
            \E i \in UploadsOf(tab) :
                /\ uploads[i].modality = m
                /\ ~uploads[i].raised
                /\ uploads[i].uri.t = "str"
                /\ uploads[i].uri.s # ""
                /\ RecordOf(tab)[m] = uploads[i].uri

C1_Witness ==
    /\ "audio" \in DOMAIN multi_data
    /\ "photo" \in DOMAIN multi_data
    /\ "photo" \in DOMAIN user_data
    /\ \E i \in UploadsOf("multi") : uploads[i].raised = FALSE /\ uploads[i].uri = Str("url-2")

C4_StagedFilesCleaned ==
    \A f \in tmpFiles :
        \/ f.cleaned
        \/ /\ temp_path = f.path
           /\ pc \in {"tab1_upload", "tab2_audio_up", "tab2_photo_up"}

\* C5: in combined mode, a click with text, audio and photo all unpopulated
\* is answered with an error and with no remote call: neither an upload nor a
\* row insertion is made for that submission.
C5_EmptyCombinedNoRemoteCall ==
    (clicked = "multi" /\ multi_text = "" /\ ~multi_audio /\ ~multi_photo) =>
        /\ UploadsOf("multi") = {}
        /\ SendsOf("multi") = {}
        /\ pc = "done" =>
              <<"multi", "error", "Please provide at least one input.">> \in messages

C5_Witness ==
    /\ clicked = "multi" /\ multi_text = "" /\ ~multi_audio /\ ~multi_photo
    /\ pc = "done"
    /\ <<"multi", "error", "Please provide at least one input.">> \in messages

C10_CombinedRecordNonEmpty ==
    \A j \in SendsOf("multi") : DOMAIN sends[j].data # {}

(***************************************************************************)
(* send_table_row, call by call                                            *)
(***************************************************************************)
\* most fallback methods jamai.table offers in a drawn shape of it
MaxAttrs == 2

candidates ==
    << "add_row", "addRow", "create_row", "createRow", "create", "add", "insert",
       "insert_row", "rows.create", "rows.add", "create_rows", "createRows",
       "add_rows", "append_row" >>
\* the call forms tried on a candidate, in order
attempts ==
    << "table_id=,data=,stream=", "table_id=,data=", "table_id,data,stream",
       "table_id,data", "data", "table_id,data,stream=" >>

CandidateNames == { candidates[i] : i \in 1..Len(candidates) }
\* a remote call returns, raises TypeError, or raises something else
CallOutcomes == {"ok", "TypeError", "Exception"}

TableShapes ==
    { [present |-> FALSE, attrs |-> {}] }
      \cup { [present |-> TRUE, attrs |-> S \cup A] :
                S \in { T \in SUBSET CandidateNames : Cardinality(T) <= MaxAttrs },
                A \in { {}, {"add_table_rows"} } }

Invocation(name, form, outcome) == [name |-> name, form |-> form, outcome |-> outcome]

\* every error of the keyword call leads to the positional call
AfterKeywordCallRetryAny(o) == IF o = "ok" THEN "returned" ELSE "add_pos"

\* lines 176-181: where the keyword call of add_table_rows leads
AfterKeywordCall(o) ==
    CASE o = "ok" -> "returned"
      [] o = "TypeError" -> "add_pos"
      [] o = "Exception" -> "raised_RuntimeError"

\* the script's own variables while one of its helpers is followed on its own
UIIdle ==
    /\ pc = "in_call"
    /\ clicked = "none"
    /\ input_type = "Text"
    /\ text_input = ""
    /\ audio_file = FALSE
    /\ photo_file = FALSE
    /\ multi_text = ""
    /\ multi_audio = FALSE
    /\ multi_photo = FALSE
    /\ user_data = EmptyRecord
    /\ table_id_to_use = NoTable
    /\ ready_to_send = FALSE
    /\ multi_data = EmptyRecord
    /\ temp_path = NoPath
    /\ tmpFiles = {}
    /\ uploads = <<>>
    /\ sends = <<>>
    /\ messages = {}
    /\ response = None
    /\ shown = NothingShown

SendInit ==
    /\ sPc = "start"
    /\ table_obj \in TableShapes
    /\ candIdx = 0
    /\ attIdx = 0
    /\ invocations = <<>>
    /\ last_exceptions = <<>>

\* lines 168-173 and 183-187
SendStart ==
    /\ sPc = "start"
    /\ IF ~table_obj.present
          THEN sPc' = "raised_AttributeError" /\ UNCHANGED candIdx
          ELSE IF "add_table_rows" \in table_obj.attrs
          THEN sPc' = "add_kw" /\ UNCHANGED candIdx
          ELSE sPc' = "candidates" /\ candIdx' = 1
    /\ UNCHANGED <<table_obj, attIdx, invocations, last_exceptions>>
    /\ UNCHANGED <<uiVars, pureVars>>

\* lines 174-181: add_table_rows(table_id=table_id, rows=[data])
AddTableRowsKeyword ==
    /\ sPc = "add_kw"
    /\ \E o \in CallOutcomes :
       /\ invocations' = Append(invocations, Invocation("add_table_rows", "table_id=,rows=", o))
       /\ sPc' = AfterKeywordCall(o)
    /\ UNCHANGED <<table_obj, candIdx, attIdx, last_exceptions>>
    /\ UNCHANGED <<uiVars, pureVars>>

\* lines 177-179: add_table_rows(table_id, [data]) in the TypeError handler;
\* what it raises leaves send_table_row as it is
AddTableRowsPositional ==
    /\ sPc = "add_pos"
    /\ \E o \in CallOutcomes :
       /\ invocations' = Append(invocations, Invocation("add_table_rows", "table_id,rows", o))
       /\ sPc' = IF o = "ok" THEN "returned" ELSE "raised_" \o o
    /\ UNCHANGED <<table_obj, candIdx, attIdx, last_exceptions>>
    /\ UNCHANGED <<uiVars, pureVars>>

\* lines 188-199 and 217-223: the next candidate name is resolved on jamai.table
NextCandidate ==
    /\ sPc = "candidates"
    /\ IF candIdx > Len(candidates)
          THEN sPc' = "raised_AttributeError" /\ UNCHANGED <<candIdx, attIdx>>
          ELSE IF candidates[candIdx] \notin table_obj.attrs
          THEN candIdx' = candIdx + 1 /\ UNCHANGED <<sPc, attIdx>>
          ELSE sPc' = "attempts" /\ attIdx' = 1 /\ UNCHANGED candIdx
    /\ UNCHANGED <<table_obj, invocations, last_exceptions>>
    /\ UNCHANGED <<uiVars, pureVars>>

\* lines 200-215: one call form is tried on the candidate
Attempt ==
    /\ sPc = "attempts"
    /\ \E o \in CallOutcomes :
       /\ invocations' = Append(invocations,
                                Invocation(candidates[candIdx], attempts[attIdx], o))
       /\ CASE o = "ok" ->
                 sPc' = "returned" /\ UNCHANGED <<candIdx, attIdx, last_exceptions>>
            [] o = "Exception" ->
                 sPc' = "raised_RuntimeError" /\ UNCHANGED <<candIdx, attIdx, last_exceptions>>
            [] o = "TypeError" ->
                 /\ last_exceptions' = Append(last_exceptions, <<candidates[candIdx], "TypeError">>)
                 /\ IF attIdx < Len(attempts)
                       THEN attIdx' = attIdx + 1 /\ UNCHANGED <<sPc, candIdx>>
                       ELSE sPc' = "candidates" /\ candIdx' = candIdx + 1 /\ UNCHANGED attIdx
    /\ UNCHANGED table_obj
    /\ UNCHANGED <<uiVars, pureVars>>

InitSend == UIIdle /\ SendInit /\ PureIdle

NextSend ==
    \/ SendStart
    \/ AddTableRowsKeyword
    \/ AddTableRowsPositional
    \/ NextCandidate
    \/ Attempt

SpecSend == InitSend /\ [][NextSend]_vars

\* C3 as stated: no failed remote call is retried: within one submission the
\* row-insertion operation is invoked at most once, whatever the first
\* invocation raises, a TypeError of add_table_rows included.
C3_InvokedAtMostOnce == Len(invocations) <= 1

\* C3 amended: a failed remote call is retried only after a TypeError. Within
\* one call of send_table_row a further invocation is made only when the one
\* before it raised TypeError; add_table_rows is invoked a second time,
\* positionally, after its keyword invocation raised TypeError, and never a
\* third time; an invocation that returned or raised any other error is the
\* last one.
C3_RetryOnlyAfterTypeError ==
    /\ \A i \in 1..(Len(invocations) - 1) : invocations[i].outcome = "TypeError"
    /\ "add_table_rows" \in table_obj.attrs =>
          /\ Len(invocations) <= 2
          /\ \A i \in 1..Len(invocations) : invocations[i].name = "add_table_rows"
          /\ Len(invocations) = 2 => invocations[2].form = "table_id,rows"
    /\ (sPc = "returned") =
          (Len(invocations) > 0 /\ invocations[Len(invocations)].outcome = "ok")

C3_Witness ==
    /\ Len(invocations) = 2
    /\ invocations[1].name = "add_table_rows"
    /\ invocations[1].outcome = "TypeError"
    /\ sPc = "returned"

(***************************************************************************)
(* The pure helpers on bounded inputs                                      *)
(***************************************************************************)
PureInit ==
    /\ fn = "input"
    /\ arg \in PureInputs
    /\ reqKey = ""
    /\ result = None
    /\ steps = 0

\* row = _find_row_dict(response)
ApplyFind ==
    /\ fn = "input"
    /\ fn' = "find"
    /\ result' = _find_row_dict(arg)
    /\ steps' = 1
    /\ UNCHANGED <<arg, reqKey>>
    /\ UNCHANGED <<uiVars, sendVars>>

\* the unwrap step, on the input and then on its own result
ApplyNormalize ==
    /\ fn \in {"input", "normalize"}
    /\ steps < MaxSteps
    /\ fn' = "normalize"
    /\ result' = _normalize_row_dict(IF steps = 0 THEN arg ELSE result)
    /\ steps' = steps + 1
    /\ UNCHANGED <<arg, reqKey>>
    /\ UNCHANGED <<uiVars, sendVars>>

\* _extract_field_safe(row, key, default=...)
ApplyExtract ==
    /\ fn = "input"
    /\ \E key \in ReqKeys :
       /\ reqKey' = key
       /\ result' = _extract_field_safe(arg, key, Default)
    /\ fn' = "extract"
    /\ steps' = 1
    /\ UNCHANGED arg
    /\ UNCHANGED <<uiVars, sendVars>>

InitPure == UIIdle /\ SendIdle /\ PureInit

NextPure ==
    \/ ApplyFind
    \/ ApplyNormalize
    \/ ApplyExtract

SpecPure == InitPure /\ [][NextPure]_vars

\* arg is {key: F} with F a mapping
IsWrapOf(v, key) == IsDict(v) /\ Len(v.kv) = 1 /\ v.kv[1][1] = key /\ IsDict(v.kv[1][2])
\* F holds a mapping under "values", "fields" or "data"
HasWrappedKey(F) == \E k \in {"values", "fields", "data"} : IsWrapped(F, k)
\* the mapping under the first of "values", "fields", "data" that holds one
FirstWrapped(F) ==
    IF IsWrapped(F, "values") THEN Get(F, "values")
    ELSE IF IsWrapped(F, "fields") THEN Get(F, "fields")
    ELSE Get(F, "data")

\* C7 as stated: for every envelope {"row": F} with F a mapping,
\* _find_row_dict returns exactly F, also when F itself holds a mapping under
\* "values", "fields" or "data".
C7_RowEnvelopeReturnsFields ==
    (fn = "find" /\ IsWrapOf(arg, "row")) => result = Get(arg, "row")

\* C7 amended: for every envelope {"row": F} with F a mapping, _find_row_dict
\* returns exactly F when F holds no mapping under "values", "fields" or
\* "data"; when it does, the result is the mapping under the first such key,
\* one level unwrapped.
C7_RowEnvelopeReturnsUnwrappedFields ==
    (fn = "find" /\ IsWrapOf(arg, "row")) =>
        LET F == Get(arg, "row")
        IN  result = IF HasWrappedKey(F) THEN FirstWrapped(F) ELSE F

C7_Witness ==
    /\ fn = "find"
    /\ IsWrapOf(arg, "row")
    /\ HasWrappedKey(Get(arg, "row"))
    /\ HasWrappedKey(result)
    /\ result # Get(arg, "row")

\* C9 as stated: unwrap of {"values": F} is F for every mapping F, and unwrap
\* of that result returns it unchanged: unwrap(unwrap(x)) = unwrap(x).
C9_UnwrapIdempotent ==
    (fn = "normalize" /\ IsWrapOf(arg, "values")) =>
        result = Get(arg, "values")

\* C9 amended: unwrap of {"values": F} is F for every mapping F; unwrap of
\* that result returns it unchanged exactly when F holds no mapping under
\* "values", "fields" or "data", and otherwise unwraps one more level.
C9_UnwrapOneLevelEachTime ==
    (fn = "normalize" /\ IsWrapOf(arg, "values")) =>
        LET F == Get(arg, "values")
        IN  /\ steps = 1 => result = F
            /\ steps = 2 => result = (IF HasWrappedKey(F) THEN FirstWrapped(F) ELSE F)
            /\ steps = 2 => ((result = F) = ~HasWrappedKey(F))

C9_Witness ==
    /\ fn = "normalize"
    /\ IsWrapOf(arg, "values")
    /\ steps = 2
    /\ ~IsWrapped(Get(arg, "values"), "values")
    /\ IsWrapped(Get(arg, "values"), "fields")
    /\ result = Get(Get(arg, "values"), "fields")

\* the requested key occurs somewhere in the structure
RECURSIVE KeyOccurs(_, _)
KeyOccurs(v, key) ==
    \/ IsDict(v) /\ HasKey(v, key)
    \/ IsDict(v) /\ \E i \in 1..Len(v.kv) : KeyOccurs(v.kv[i][2], key)
    \/ IsList(v) /\ \E i \in 1..Len(v.items) : KeyOccurs(v.items[i], key)

\* the first value under the key in depth-first order
RECURSIVE FirstUnder(_, _)
FirstUnder(v, key) ==
    IF IsDict(v) /\ HasKey(v, key) THEN Get(v, key)
    ELSE LET xs == IF IsDict(v) THEN [i \in 1..Len(v.kv) |-> v.kv[i][2]] ELSE v.items
             hit == CHOOSE i \in 1..Len(xs) :
                        /\ KeyOccurs(xs[i], key)
                        /\ \A j \in 1..(i - 1) : ~KeyOccurs(xs[j], key)
         IN  FirstUnder(xs[hit], key)

\* C8: _extract_field_safe returns the value under the key at the top level
\* when it is there; otherwise the first value found under the key by a
\* depth-first search of the nested mappings and sequences; the default only
\* when the key occurs nowhere, also for "description" and "summary" when the
\* top level holds a string under "text", "description", "summary" or
\* "content".
C8_ExtractFindsNested ==
    (fn = "extract" /\ IsDict(arg)) =>
        result = IF KeyOccurs(arg, reqKey) THEN FirstUnder(arg, reqKey) ELSE Default

====
